---- MODULE Spec2Model ----
(***************************************************************************)
(* Model of new_correction.py: analyze_climate_data_final_v3 walks a       *)
(* directory tree, classifies the lines of every file with three regular   *)
(* expressions, aggregates per directory base name and writes one CSV      *)
(* report into the root directory.                                         *)
(*                                                                         *)
(* Text is modelled as sequences of one-character strings, so that the     *)
(* regular expressions, the string comparison of the sort, str() of the    *)
(* counts and the CSV quoting are computed and not assumed.                *)
(***************************************************************************)
EXTENDS Integers, Sequences, FiniteSets, TLC

----------------------------------------------------------------------------
(* Characters *)

\* The characters the model uses, in code point order (the order Python's
\* str comparison uses).
Ascii ==
  <<"\n", "\r", " ", "\"", ",", ".", "0", "1", "2", "3", "4", "5", "6", "7", "8", "9", ";", "A", "B", "C", "D", "E", "F", "G", "H", "I", "J", "K", "L", "M", "N", "O", "P", "Q", "R", "S", "T", "U", "V", "W", "X", "Y", "Z", "_", "a", "b", "c", "d", "e", "f", "g", "h", "i", "j", "k", "l", "m", "n", "o", "p", "q", "r", "s", "t", "u", "v", "w", "x", "y", "z">>

Ord(c) ==
  CHOOSE i \in 1..Len(Ascii) : Ascii[i] = c

\* [a-zA-Z]
Letters ==
  {"a", "b", "c", "d", "e", "f", "g", "h", "i", "j", "k", "l", "m", "n", "o", "p", "q", "r", "s", "t", "u", "v", "w", "x", "y", "z", "A", "B", "C", "D", "E", "F", "G", "H", "I", "J", "K", "L", "M", "N", "O", "P", "Q", "R", "S", "T", "U", "V", "W", "X", "Y", "Z"}

\* \d (restricted to the ASCII digits of the model's alphabet)
Digits ==
  <<"0", "1", "2", "3", "4", "5", "6", "7", "8", "9">>

IsAlpha(c) ==
  c \in Letters

IsDigit(c) ==
  \E k \in 1..Len(Digits) : Digits[k] = c

\* \w, the class \b is defined by
IsWord(c) ==
  IsAlpha(c) \/ IsDigit(c) \/ c = "_"

----------------------------------------------------------------------------
(* Reading a text file line by line: "for line in f" with universal        *)
(* newlines. Every line keeps its terminator, translated to "\n".          *)

FirstNewline(s) ==
  IF \E i \in 1..Len(s) : s[i] \in {"\n", "\r"}
  THEN CHOOSE i \in 1..Len(s) :
         /\ s[i] \in {"\n", "\r"}
         /\ \A j \in 1..(i - 1) : s[j] \notin {"\n", "\r"}
  ELSE 0

TerminatorLen(s, i) ==
  IF s[i] = "\r" /\ i < Len(s) /\ s[i + 1] = "\n" THEN 2 ELSE 1

RECURSIVE FileLines(_)
FileLines(s) ==
  IF s = <<>> THEN <<>>
  ELSE LET i == FirstNewline(s) IN
       IF i = 0 THEN <<s>>
       ELSE <<SubSeq(s, 1, i - 1) \o <<"\n">>>>
            \o FileLines(SubSeq(s, i + TerminatorLen(s, i), Len(s)))

----------------------------------------------------------------------------
(* The three regular expressions *)

\* re.search(r'[a-zA-Z]', line)
HasAlpha(line) ==
  \E i \in 1..Len(line) : IsAlpha(line[i])

\* The greedy [a-zA-Z]+ from pos: the number of letters it takes.
AlphaRun(line, pos) ==
  CHOOSE n \in 0..(Len(line) - pos + 1) :
    /\ \A k \in pos..(pos + n - 1) : IsAlpha(line[k])
    /\ (pos + n > Len(line) \/ ~IsAlpha(line[pos + n]))

\* As FindAllAlpha with the pattern [a-zA-Z], the + lost: every letter a unit.
RECURSIVE FindAllAlphaPerLetter(_, _)
FindAllAlphaPerLetter(line, pos) ==
  IF pos > Len(line) THEN <<>>
  ELSE (IF IsAlpha(line[pos]) THEN <<<<line[pos]>>>> ELSE <<>>)
         \o FindAllAlphaPerLetter(line, pos + 1)

\* re.findall(r'[a-zA-Z]+', line), scanning from pos
RECURSIVE FindAllAlpha(_, _)
FindAllAlpha(line, pos) ==
  IF pos > Len(line) THEN <<>>
  ELSE LET n == AlphaRun(line, pos) IN
       IF n > 0
       THEN <<SubSeq(line, pos, pos + n - 1)>> \o FindAllAlpha(line, pos + n)
       ELSE FindAllAlpha(line, pos + 1)

\* The greedy \d* from pos: the number of digits it can take at most.
DigitRun(line, pos) ==
  CHOOSE n \in 0..(Len(line) - pos + 1) :
    /\ \A k \in pos..(pos + n - 1) : IsDigit(line[k])
    /\ (pos + n > Len(line) \/ ~IsDigit(line[pos + n]))

IsWordAt(line, p) ==
  p \in 1..Len(line) /\ IsWord(line[p])

\* \b between the characters p-1 and p
WordBoundary(line, p) ==
  IsWordAt(line, p - 1) # IsWordAt(line, p)

\* The ways \b\d+\.?\d*\b matches at pos: <<digits, dot, digits>> taken.
NumMatches(line, pos) ==
  IF ~WordBoundary(line, pos) THEN {}
  ELSE {c \in (1..DigitRun(line, pos)) \X {0, 1} \X (0..Len(line)) :
          /\ c[2] = 1 => (pos + c[1] <= Len(line) /\ line[pos + c[1]] = ".")
          /\ c[3] <= DigitRun(line, pos + c[1] + c[2])
          /\ WordBoundary(line, pos + c[1] + c[2] + c[3])}

\* Backtracking order: every quantifier is greedy, the leftmost one first.
Preferred(c, d) ==
  \/ c[1] > d[1]
  \/ c[1] = d[1] /\ c[2] > d[2]
  \/ c[1] = d[1] /\ c[2] = d[2] /\ c[3] >= d[3]

\* The length of the match of \b\d+\.?\d*\b at pos, 0 when there is none.
NumMatchLen(line, pos) ==
  LET M == NumMatches(line, pos) IN
  IF M = {} THEN 0
  ELSE LET c == CHOOSE c \in M : \A d \in M : Preferred(c, d)
       IN c[1] + c[2] + c[3]

\* re.findall(r'\b\d+\.?\d*\b', line), scanning from pos
RECURSIVE FindAllNum(_, _)
FindAllNum(line, pos) ==
  IF pos > Len(line) THEN <<>>
  ELSE LET n == NumMatchLen(line, pos) IN
       IF n > 0
       THEN <<SubSeq(line, pos, pos + n - 1)>> \o FindAllNum(line, pos + n)
       ELSE FindAllNum(line, pos + 1)

----------------------------------------------------------------------------
(* Strings *)

\* sep.join(parts)
RECURSIVE Join(_, _)
Join(sep, parts) ==
  IF parts = <<>> THEN <<>>
  ELSE IF Len(parts) = 1 THEN parts[1]
  ELSE parts[1] \o sep \o Join(sep, Tail(parts))

\* str(n) of a non-negative int
RECURSIVE DecStr(_)
DecStr(n) ==
  IF n < Len(Digits) THEN <<Digits[n + 1]>>
  ELSE DecStr(n \div Len(Digits)) \o <<Digits[(n % Len(Digits)) + 1]>>

\* a < b of two Python strings: code point by code point, a proper prefix first
RECURSIVE StrLess(_, _)
StrLess(a, b) ==
  IF b = <<>> THEN FALSE
  ELSE IF a = <<>> THEN TRUE
  ELSE IF a[1] # b[1] THEN Ord(a[1]) < Ord(b[1])
  ELSE StrLess(Tail(a), Tail(b))

----------------------------------------------------------------------------
(* Python values and containers *)

\* A cell of a report row holds an int or a str.
PyInt(n) ==
  [int |-> n]

PyStr(s) ==
  [str |-> s]

\* str(v), as csv.writer applies it to every cell
ToStr(v) ==
  IF "int" \in DOMAIN v THEN DecStr(v.int) ELSE v.str

\* A dict is the sequence of its items in insertion order.
DictHas(d, k) ==
  \E i \in 1..Len(d) : d[i].k = k

DictGet(d, k, default) ==
  IF DictHas(d, k) THEN d[CHOOSE i \in 1..Len(d) : d[i].k = k].v ELSE default

DictPut(d, k, v) ==
  IF DictHas(d, k)
  THEN [i \in 1..Len(d) |-> IF d[i].k = k THEN [k |-> k, v |-> v] ELSE d[i]]
  ELSE Append(d, [k |-> k, v |-> v])

\* As SortByTotal with an unstable sort: equal totals change places.
RECURSIVE SortByTotalUnstable(_)
SortByTotalUnstable(items) ==
  IF items = <<>> THEN <<>>
  ELSE LET n      == Len(items)
           x      == items[n]
           sorted == SortByTotalUnstable(SubSeq(items, 1, n - 1))
           keep   == Cardinality({i \in 1..(n - 1) : sorted[i][2] < x[2]})
       IN SubSeq(sorted, 1, keep) \o <<x>> \o SubSeq(sorted, keep + 1, n - 1)

\* list.sort(key=lambda item: item[1]) on (name, total) pairs: stable
RECURSIVE SortByTotal(_)
SortByTotal(items) ==
  IF items = <<>> THEN <<>>
  ELSE LET n      == Len(items)
           x      == items[n]
           sorted == SortByTotal(SubSeq(items, 1, n - 1))
           keep   == Cardinality({i \in 1..(n - 1) : ~(x[2] < sorted[i][2])})
       IN SubSeq(sorted, 1, keep) \o <<x>> \o SubSeq(sorted, keep + 1, n - 1)

\* As SortByFile with the sort left out: the order of the walk.
SortByFileLeftOut(recs) ==
  recs

\* list.sort(key=lambda x: x['File']) on file records: stable
RECURSIVE SortByFile(_)
SortByFile(recs) ==
  IF recs = <<>> THEN <<>>
  ELSE LET n      == Len(recs)
           x      == recs[n]
           sorted == SortByFile(SubSeq(recs, 1, n - 1))
           keep   == Cardinality({i \in 1..(n - 1) : ~StrLess(x.File, sorted[i].File)})
       IN SubSeq(sorted, 1, keep) \o <<x>> \o SubSeq(sorted, keep + 1, n - 1)

----------------------------------------------------------------------------
(* The CSV writer: csv.DictWriter, excel dialect *)

ColSubfolderName ==
  <<"S", "u", "b", "f", "o", "l", "d", "e", "r", " ", "N", "a", "m", "e">>

ColSubfolderTotal ==
  <<"S", "u", "b", "f", "o", "l", "d", "e", "r", " ", "T", "o", "t", "a", "l", " ", "A", "l", "p", "h", "a", "b", "e", "t", "i", "c", "a", "l", " ", "C", "o", "u", "n", "t">>

ColFileName ==
  <<"F", "i", "l", "e", " ", "N", "a", "m", "e">>

ColFileCount ==
  <<"F", "i", "l", "e", " ", "A", "l", "p", "h", "a", "b", "e", "t", "i", "c", "a", "l", " ", "C", "o", "u", "n", "t">>

ColFollowingDay ==
  <<"F", "o", "l", "l", "o", "w", "i", "n", "g", " ", "d", "a", "y">>

fieldnames ==
  <<ColSubfolderName, ColSubfolderTotal, ColFileName, ColFileCount, ColFollowingDay>>

\* One dict of final_report_data
Row(name, total, file, count, following) ==
  (ColSubfolderName :> name) @@ (ColSubfolderTotal :> total) @@ (ColFileName :> file)
    @@ (ColFileCount :> count) @@ (ColFollowingDay :> following)

RECURSIVE DoubleQuotes(_)
DoubleQuotes(s) ==
  IF s = <<>> THEN <<>>
  ELSE (IF s[1] = "\"" THEN <<"\"", "\"">> ELSE <<s[1]>>) \o DoubleQuotes(Tail(s))

\* QUOTE_MINIMAL: a field with the delimiter, the quote character or a line
\* terminator character is quoted, its quotes doubled.
CsvField(s) ==
  IF \E i \in 1..Len(s) : s[i] \in {",", "\"", "\r", "\n"}
  THEN <<"\"">> \o DoubleQuotes(s) \o <<"\"">>
  ELSE s

\* writer.writerow of the cells, in fieldnames order
CsvLine(cells) ==
  Join(<<",">>, [i \in 1..Len(cells) |-> CsvField(cells[i])]) \o <<"\r", "\n">>

RECURSIVE Concat(_)
Concat(ss) ==
  IF ss = <<>> THEN <<>> ELSE ss[1] \o Concat(Tail(ss))

\* writeheader, then writerow of every row
CsvText(rows) ==
  CsvLine(fieldnames)
    \o Concat([r \in 1..Len(rows) |->
                 CsvLine([c \in 1..Len(fieldnames) |-> ToStr(rows[r][fieldnames[c]])])])

OutputName ==
  <<"c", "l", "i", "m", "a", "t", "e", "_", "d", "a", "t", "a", "_", "a", "n", "a", "l", "y", "s", "i", "s", ".", "c", "s", "v">>

\* os.path.basename of main_folder_location
MainFolderName ==
  <<"c", "l", "i", "m", "a", "t", "e", " ", "d", "a", "t", "a">>

----------------------------------------------------------------------------
(* The file system: the directories in os.walk order, the main folder      *)
(* first. A file is its name, its text and whether (and after how many     *)
(* lines) reading it raises.                                               *)

MaxDirs ==
  2

MaxFiles ==
  3

MaxFileLen ==
  4

DirNames ==
  {<<"A">>, <<"B">>}

File(name, content, fails, failAt) ==
  [name |-> name, content |-> content, fails |-> fails, failAt |-> failAt]

\* "x 1": one alphabetical unit, one number
FileOne ==
  File(<<"a">>, <<"x", " ", "1", "\n">>, FALSE, 0)

\* "p q 2.5" and "7": two units, the 7 on a line without letters
FileTwo ==
  File(<<"B">>, <<"p", " ", "q", " ", "2", ".", "5", "\n", "7", "\n">>, FALSE, 0)

\* reading raises after the first line
FileBroken ==
  File(<<"b">>, <<"x", " ", "3", "\n", "y", "\n">>, TRUE, 1)

\* opening raises
FileLocked ==
  File(<<"a">>, <<"z", "\n">>, TRUE, 0)

SampleFiles ==
  {FileOne, FileTwo, FileBroken}

\* The example of the specification: "Temp 5 and 6 rising" and "42"
ExampleContent ==
  <<"T", "e", "m", "p", " ", "5", " ", "a", "n", "d", " ", "6", " ", "r", "i", "s", "i", "n", "g", "\n", "4", "2", "\n">>

FileAlphabet ==
  {"a", "1", ".", " ", "\n"}

Contents ==
  UNION {[1..n -> FileAlphabet] : n \in 0..MaxFileLen}

IsPrefix(a, b) ==
  Len(a) <= Len(b) /\ SubSeq(b, 1, Len(a)) = a

\* A top-down walk: no directory twice, every directory after its parent,
\* every subtree contiguous.
ValidWalk(w) ==
  /\ \A i, j \in 1..Len(w) : i # j => w[i] # w[j]
  /\ \A i \in 1..Len(w) :
       Len(w[i]) > 1 =>
         \E j \in 1..(i - 1) :
           /\ w[j] = SubSeq(w[i], 1, Len(w[i]) - 1)
           /\ \A k \in j..i : IsPrefix(w[j], w[k])

Paths ==
  UNION {[1..n -> DirNames] : n \in 1..MaxDirs}

Walks ==
  {w \in UNION {[1..n -> Paths] : n \in 0..MaxDirs} : ValidWalk(w)}

\* A placement lists <<directory, file>> pairs in listing order.
Placements ==
  UNION {[1..n -> (1..MaxDirs) \X SampleFiles] : n \in 0..MaxFiles}

RECURSIVE FilesOf(_, _)
FilesOf(pl, d) ==
  IF pl = <<>> THEN <<>>
  ELSE (IF pl[1][1] = d THEN <<pl[1][2]>> ELSE <<>>) \o FilesOf(Tail(pl), d)

ValidPlacement(w, pl) ==
  /\ \A i \in 1..Len(pl) : pl[i][1] <= Len(w)
  /\ \A i, j \in 1..Len(pl) :
       (i # j /\ pl[i][1] = pl[j][1]) => pl[i][2].name # pl[j][2].name

MainFolder ==
  [path |-> <<>>, files |-> <<>>]

TreeOf(w, pl) ==
  <<MainFolder>> \o [i \in 1..Len(w) |-> [path |-> w[i], files |-> FilesOf(pl, i)]]

Trees ==
  {TreeOf(x[1], x[2]) : x \in {y \in Walks \X Placements : ValidPlacement(y[1], y[2])}}

\* One directory with one file, the file's text drawn from every short text.
FileTrees ==
  {<<MainFolder, [path |-> <<<<"A">>>>, files |-> <<f>>]>> :
     f \in {File(<<"x">>, c, FALSE, 0) : c \in Contents \cup {ExampleContent}}
           \cup {FileLocked}}

----------------------------------------------------------------------------
(* analyze_climate_data_final_v3 *)

VARIABLES
  tree,                              \* the file system under main_folder_path
  pc,                                \* where the function is
  printed,                           \* the message this run has printed
  previous_output,                   \* history: the output file's text as this call found it
  di,                                \* os.walk has yielded tree[1..di]
  fi,                                \* "for file in files" has taken files[1..fi]
  li,                                \* "for line in f" has yielded li lines
  current_subfolder_name,
  alphabetical_units_count_file,
  numerical_data_from_alpha_lines,
  subfolder_totals,
  subfolder_data,
  final_report_data

vars ==
  <<tree, pc, printed, previous_output, di, fi, li, current_subfolder_name,
    alphabetical_units_count_file, numerical_data_from_alpha_lines,
    subfolder_totals, subfolder_data, final_report_data>>

locals ==
  <<di, fi, li, current_subfolder_name, alphabetical_units_count_file,
    numerical_data_from_alpha_lines, subfolder_totals, subfolder_data,
    final_report_data>>

Init ==
  /\ tree \in Trees \cup FileTrees
  /\ printed = "nothing"
  /\ previous_output = <<>>
  /\ pc = "walk"
  /\ di = 0
  /\ fi = 0
  /\ li = 0
  /\ current_subfolder_name = <<>>
  /\ alphabetical_units_count_file = 0
  /\ numerical_data_from_alpha_lines = <<>>
  /\ subfolder_totals = <<>>
  /\ subfolder_data = <<>>
  /\ final_report_data = <<>>

\* os.path.relpath(root, main_folder_path)
RelPath(path) ==
  IF path = <<>> THEN <<".">> ELSE Join(<<"/">>, path)

\* As IsMainFolder with the test lost: the main folder is walked as any other.
IsMainFolderNever(path) ==
  FALSE

\* relative_path == '.'
IsMainFolder(path) ==
  RelPath(path) = <<".">>

\* os.path.basename(root)
BaseName(path) ==
  IF path = <<>> THEN MainFolderName ELSE path[Len(path)]

CurrentFile ==
  tree[di].files[fi]

\* The main folder itself is skipped.
WalkRoot ==
  /\ pc = "walk"
  /\ di < Len(tree)
  /\ IsMainFolder(tree[di + 1].path)
  /\ di' = di + 1
  /\ UNCHANGED <<tree, pc, printed, previous_output, fi, li, current_subfolder_name,
                 alphabetical_units_count_file, numerical_data_from_alpha_lines,
                 subfolder_totals, subfolder_data, final_report_data>>

\* As InitTotal with the initialisation left out: a key appears with its
\* first recorded file.
InitTotalLeftOut(totals, key) ==
  totals

\* if current_subfolder_name not in subfolder_totals:
\*     subfolder_totals[current_subfolder_name] = 0
InitTotal(totals, key) ==
  IF DictHas(totals, key) THEN totals ELSE DictPut(totals, key, 0)

\* Any other directory gets its base name as key, with total 0 when new.
WalkDir ==
  /\ pc = "walk"
  /\ di < Len(tree)
  /\ ~IsMainFolder(tree[di + 1].path)
  /\ di' = di + 1
  /\ current_subfolder_name' = BaseName(tree[di + 1].path)
  /\ subfolder_totals' = InitTotal(subfolder_totals, BaseName(tree[di + 1].path))
  /\ fi' = 0
  /\ pc' = "files"
  /\ UNCHANGED <<tree, printed, previous_output, li, alphabetical_units_count_file,
                 numerical_data_from_alpha_lines, subfolder_data, final_report_data>>

WalkEnd ==
  /\ pc = "walk"
  /\ di = Len(tree)
  /\ pc' = "report"
  /\ UNCHANGED <<tree, printed, previous_output, locals>>

\* The next file of the directory: its counters start empty.
NextFile ==
  /\ pc = "files"
  /\ fi < Len(tree[di].files)
  /\ fi' = fi + 1
  /\ li' = 0
  /\ alphabetical_units_count_file' = 0
  /\ numerical_data_from_alpha_lines' = <<>>
  /\ pc' = "read"
  /\ UNCHANGED <<tree, printed, previous_output, di, current_subfolder_name, subfolder_totals,
                 subfolder_data, final_report_data>>

EndFiles ==
  /\ pc = "files"
  /\ fi = Len(tree[di].files)
  /\ pc' = "walk"
  /\ UNCHANGED <<tree, printed, previous_output, locals>>

Raises ==
  CurrentFile.fails /\ CurrentFile.failAt = li

\* The numbers a line adds
LineNumbers(line) ==
  IF HasAlpha(line) THEN FindAllNum(line, 1) ELSE <<>>

\* The alphabetical units a line adds
LineUnits(line) ==
  IF HasAlpha(line) THEN Len(FindAllAlpha(line, 1)) ELSE 0

\* One line of the file
ReadLine ==
  /\ pc = "read"
  /\ ~Raises
  /\ li < Len(FileLines(CurrentFile.content))
  /\ LET line == FileLines(CurrentFile.content)[li + 1] IN
       /\ numerical_data_from_alpha_lines' =
            numerical_data_from_alpha_lines \o LineNumbers(line)
       /\ alphabetical_units_count_file' =
            alphabetical_units_count_file + LineUnits(line)
  /\ li' = li + 1
  /\ UNCHANGED <<tree, pc, printed, previous_output, di, fi, current_subfolder_name,
                 subfolder_totals, subfolder_data, final_report_data>>

\* As ReadError with the record added in a finally: the units read before the
\* error are recorded.
ReadErrorKeepsPartial ==
  /\ pc = "read"
  /\ CurrentFile.fails /\ CurrentFile.failAt = li
  /\ subfolder_data' =
       DictPut(subfolder_data, current_subfolder_name,
               Append(DictGet(subfolder_data, current_subfolder_name, <<>>),
                      [File |-> CurrentFile.name,
                       AlphabeticalUnitsCount |-> alphabetical_units_count_file,
                       FollowingDay |-> <<>>]))
  /\ subfolder_totals' =
       DictPut(subfolder_totals, current_subfolder_name,
               DictGet(subfolder_totals, current_subfolder_name, 0)
                 + alphabetical_units_count_file)
  /\ pc' = "files"
  /\ UNCHANGED <<tree, printed, previous_output, di, fi, li, current_subfolder_name,
                 alphabetical_units_count_file, numerical_data_from_alpha_lines,
                 final_report_data>>

\* open() or a read raises: except Exception: pass
ReadError ==
  /\ pc = "read"
  /\ Raises
  /\ pc' = "files"
  /\ UNCHANGED <<tree, printed, previous_output, locals>>

\* As Qualifies with >= for >: a file without a unit is recorded too.
QualifiesAlways(count) ==
  count >= 0

\* if alphabetical_units_count_file > 0
Qualifies(count) ==
  count > 0

FollowingDay(numbers) ==
  IF numbers # <<>> THEN Join(<<";", " ">>, numbers) ELSE <<>>

FileRecord(name, count, numbers) ==
  [File |-> name, AlphabeticalUnitsCount |-> count, FollowingDay |-> FollowingDay(numbers)]

\* As AddToTotal with = for +=: the total is the count of the last file.
AddToTotalOverwrites(totals, key, count) ==
  DictPut(totals, key, count)

\* subfolder_totals[key] += count
AddToTotal(totals, key, count) ==
  DictPut(totals, key, DictGet(totals, key, 0) + count)

\* subfolder_data[key].append(rec)
AddRecord(data, key, rec) ==
  DictPut(data, key, Append(DictGet(data, key, <<>>), rec))

\* The file is read to its end: it is recorded when it has a unit.
FinishFile ==
  /\ pc = "read"
  /\ ~Raises
  /\ li = Len(FileLines(CurrentFile.content))
  /\ IF Qualifies(alphabetical_units_count_file)
     THEN /\ subfolder_data' =
               AddRecord(subfolder_data, current_subfolder_name,
                         FileRecord(CurrentFile.name, alphabetical_units_count_file,
                                    numerical_data_from_alpha_lines))
          /\ subfolder_totals' =
               AddToTotal(subfolder_totals, current_subfolder_name,
                          alphabetical_units_count_file)
     ELSE UNCHANGED <<subfolder_data, subfolder_totals>>
  /\ pc' = "files"
  /\ UNCHANGED <<tree, printed, previous_output, di, fi, li, current_subfolder_name,
                 alphabetical_units_count_file, numerical_data_from_alpha_lines,
                 final_report_data>>

----------------------------------------------------------------------------
(* The report *)

\* subfolder_totals.items()
Items(totals) ==
  [i \in 1..Len(totals) |-> <<totals[i].k, totals[i].v>>]

zero_count_subfolders(totals) ==
  SelectSeq(Items(totals), LAMBDA item : item[2] = 0)

non_zero_count_subfolders(totals) ==
  SelectSeq(Items(totals), LAMBDA item : item[2] # 0)

sorted_subfolders(totals) ==
  zero_count_subfolders(totals) \o SortByTotal(non_zero_count_subfolders(totals))

\* subfolder_data.get(subfolder_name, []), sorted by file name
files_in_subfolder(data, name) ==
  SortByFile(DictGet(data, name, <<>>))

\* As SubfolderRows with the subfolder's name and total repeated on every
\* file row.
SubfolderRowsRepeatName(name, total, files) ==
  <<Row(PyStr(name), PyInt(total), PyStr(<<>>), PyStr(<<>>), PyStr(<<>>))>>
    \o [i \in 1..Len(files) |->
          Row(PyStr(name), PyInt(total), PyStr(files[i].File),
              PyInt(files[i].AlphabeticalUnitsCount), PyStr(files[i].FollowingDay))]

\* The subfolder row, then one row per file of the subfolder.
SubfolderRows(name, total, files) ==
  <<Row(PyStr(name), PyInt(total), PyStr(<<>>), PyStr(<<>>), PyStr(<<>>))>>
    \o [i \in 1..Len(files) |->
          Row(PyStr(<<>>), PyStr(<<>>), PyStr(files[i].File),
              PyInt(files[i].AlphabeticalUnitsCount), PyStr(files[i].FollowingDay))]

ReportRows(totals, data) ==
  LET subs == sorted_subfolders(totals) IN
  Concat([i \in 1..Len(subs) |->
            SubfolderRows(subs[i][1], subs[i][2], files_in_subfolder(data, subs[i][1]))])

\* The lists of subfolder_data are sorted in place while the rows are built.
BuildReport ==
  /\ pc = "report"
  /\ final_report_data' = ReportRows(subfolder_totals, subfolder_data)
  /\ subfolder_data' =
       [i \in 1..Len(subfolder_data) |->
          IF DictHas(subfolder_totals, subfolder_data[i].k)
          THEN [k |-> subfolder_data[i].k, v |-> SortByFile(subfolder_data[i].v)]
          ELSE subfolder_data[i]]
  /\ pc' = "write"
  /\ UNCHANGED <<tree, printed, previous_output, di, fi, li, current_subfolder_name,
                 alphabetical_units_count_file, numerical_data_from_alpha_lines,
                 subfolder_totals>>

\* The files of a directory after name is written with text.
WriteFile(files, name, text) ==
  IF \E i \in 1..Len(files) : files[i].name = name
  THEN [i \in 1..Len(files) |->
          IF files[i].name = name THEN File(name, text, FALSE, 0) ELSE files[i]]
  ELSE Append(files, File(name, text, FALSE, 0))

\* The report is written to <main folder>/climate_data_analysis.csv.
WriteCsv ==
  /\ pc = "write"
  /\ tree' = [tree EXCEPT ![1].files =
                WriteFile(tree[1].files, OutputName, CsvText(final_report_data))]
  /\ printed' = "Successfully created climate_data_analysis.csv"
  /\ pc' = "done"
  /\ UNCHANGED <<previous_output, locals>>

\* The output file cannot be opened for writing: the error is printed.
WriteError ==
  /\ pc = "write"
  /\ printed' = "Error writing CSV file"
  /\ pc' = "done"
  /\ UNCHANGED <<tree, previous_output, locals>>

\* The text of the file of that name among files: <<text>>, or <<>> without it.
TextOf(files, name) ==
  LET found == SelectSeq(files, LAMBDA f : f.name = name) IN
  [i \in 1..Len(found) |-> found[i].content]

\* The script is run again on the tree as the last run left it.
Rerun ==
  /\ pc = "done"
  /\ printed' = "nothing"
  /\ previous_output' = TextOf(tree[1].files, OutputName)
  /\ pc' = "walk"
  /\ di' = 0
  /\ fi' = 0
  /\ li' = 0
  /\ current_subfolder_name' = <<>>
  /\ alphabetical_units_count_file' = 0
  /\ numerical_data_from_alpha_lines' = <<>>
  /\ subfolder_totals' = <<>>
  /\ subfolder_data' = <<>>
  /\ final_report_data' = <<>>
  /\ UNCHANGED tree

Next ==
  \/ WalkRoot
  \/ WalkDir
  \/ WalkEnd
  \/ NextFile
  \/ EndFiles
  \/ ReadLine
  \/ ReadError
  \/ FinishFile
  \/ BuildReport
  \/ WriteCsv
  \/ WriteError
  \/ Rerun

Spec ==
  Init /\ [][Next]_vars

----------------------------------------------------------------------------
(* The vocabulary of the properties: what the specification says of a file,*)
(* of a directory and of the rows of the report.                           *)

RECURSIVE Sum(_)
Sum(ns) ==
  IF ns = <<>> THEN 0 ELSE ns[1] + Sum(Tail(ns))

Range(q) ==
  {q[i] : i \in 1..Len(q)}

Count(q, x) ==
  Cardinality({i \in 1..Len(q) : q[i] = x})

\* The same elements, each as often
SameBag(q, r) ==
  /\ Len(q) = Len(r)
  /\ \A x \in Range(q) \cup Range(r) : Count(q, x) = Count(r, x)

\* An alphabetic line: a line with at least one letter
AlphabeticLine(line) ==
  \E i \in 1..Len(line) : line[i] \in Letters

AlphabeticLines(f) ==
  SelectSeq(FileLines(f.content), AlphabeticLine)

\* The maximal runs of letters of a line: the places where one starts
MaximalRuns(line) ==
  Cardinality({i \in 1..Len(line) :
                 line[i] \in Letters /\ (i = 1 \/ line[i - 1] \notin Letters)})

\* The alphabetical count the specification gives a file
SpecCount(f) ==
  LET ls == AlphabeticLines(f) IN Sum([i \in 1..Len(ls) |-> MaximalRuns(ls[i])])

\* The ways \b\d+(\.\d+)?\b matches at pos: <<digits, fraction digits>>
SpecNumMatches(line, pos) ==
  IF ~WordBoundary(line, pos) THEN {}
  ELSE {c \in (1..DigitRun(line, pos)) \X (0..Len(line)) :
          /\ c[2] > 0 => /\ pos + c[1] <= Len(line)
                         /\ line[pos + c[1]] = "."
                         /\ c[2] <= DigitRun(line, pos + c[1] + 1)
          /\ WordBoundary(line, pos + c[1] + (IF c[2] > 0 THEN c[2] + 1 ELSE 0))}

SpecNumLen(line, pos) ==
  LET M == SpecNumMatches(line, pos) IN
  IF M = {} THEN 0
  ELSE LET c == CHOOSE c \in M :
                  \A d \in M : c[1] > d[1] \/ (c[1] = d[1] /\ c[2] >= d[2])
       IN c[1] + (IF c[2] > 0 THEN c[2] + 1 ELSE 0)

\* The tokens \b\d+(\.\d+)?\b of a line, left to right
RECURSIVE SpecNumbers(_, _)
SpecNumbers(line, pos) ==
  IF pos > Len(line) THEN <<>>
  ELSE LET n == SpecNumLen(line, pos) IN
       IF n > 0
       THEN <<SubSeq(line, pos, pos + n - 1)>> \o SpecNumbers(line, pos + n)
       ELSE SpecNumbers(line, pos + 1)

\* The 'Following day' text the specification gives a file
SpecFollowingDay(f) ==
  LET ls == AlphabeticLines(f) IN
  Join(<<";", " ">>, Concat([i \in 1..Len(ls) |-> SpecNumbers(ls[i], 1)]))

\* The file can be read to its end.
Readable(f) ==
  ~(f.fails /\ f.failAt <= Len(FileLines(f.content)))

\* The files the report is to list: readable, with an alphabetic line
Listed(f) ==
  Readable(f) /\ AlphabeticLines(f) # <<>>

\* The directories visited under the root, the root excluded
Subfolders ==
  {i \in 1..Len(tree) : tree[i].path # <<>>}

KeyOf(i) ==
  tree[i].path[Len(tree[i].path)]

\* The listed files of the directories of base name key, in walk order
ListedFiles(key) ==
  Concat([i \in 1..Len(tree) |->
            IF i \in Subfolders /\ KeyOf(i) = key
            THEN SelectSeq(tree[i].files, Listed)
            ELSE <<>>])

\* When the walk first met a directory of base name key
FirstSeen(key) ==
  CHOOSE i \in Subfolders :
    KeyOf(i) = key /\ \A j \in Subfolders : KeyOf(j) = key => i <= j

Blank ==
  PyStr(<<>>)

HeaderStyle(r) ==
  /\ r[ColSubfolderName] # Blank
  /\ "int" \in DOMAIN r[ColSubfolderTotal]
  /\ r[ColFileName] = Blank
  /\ r[ColFileCount] = Blank
  /\ r[ColFollowingDay] = Blank

FileStyle(r) ==
  /\ r[ColSubfolderName] = Blank
  /\ r[ColSubfolderTotal] = Blank
  /\ r[ColFileName] # Blank
  /\ "int" \in DOMAIN r[ColFileCount]
  /\ "str" \in DOMAIN r[ColFollowingDay]

\* The report exists: its rows are built.
ReportBuilt ==
  pc \in {"write", "done"}

HeaderRows ==
  SelectSeq(final_report_data, HeaderStyle)

\* The rows from row i up to the next header row
RECURSIVE Block(_)
Block(i) ==
  IF i > Len(final_report_data) \/ HeaderStyle(final_report_data[i]) THEN <<>>
  ELSE <<final_report_data[i]>> \o Block(i + 1)

\* The rows below the header rows of key
RowsUnder(key) ==
  Concat([h \in 1..Len(final_report_data) |->
            IF /\ HeaderStyle(final_report_data[h])
               /\ final_report_data[h][ColSubfolderName] = PyStr(key)
            THEN Block(h + 1)
            ELSE <<>>])

\* Every base name the tree or the report knows
Keys ==
  {KeyOf(i) : i \in Subfolders}
    \cup {HeaderRows[h][ColSubfolderName].str : h \in 1..Len(HeaderRows)}

----------------------------------------------------------------------------
(* C1: for every file listed in the report, 'Following day' is the numeric *)
(* tokens \b\d+(\.\d+)?\b of the file's alphabetic lines, in line order and *)
(* left to right, joined by "; " (empty without a token); a line without a *)
(* letter gives no token. Files are told apart by subfolder and name.      *)
C1_FollowingDayIsSpecTokens ==
  ReportBuilt =>
    \A key \in Keys :
      LET rows  == RowsUnder(key)
          files == ListedFiles(key)
      IN SameBag([i \in 1..Len(rows) |->
                    <<rows[i][ColFileName], rows[i][ColFollowingDay]>>],
                 [i \in 1..Len(files) |->
                    <<PyStr(files[i].name), PyStr(SpecFollowingDay(files[i]))>>])

\* A file whose text has a digit run, a dot and a letter in a row is listed.
C1_Witness ==
  /\ pc = "done"
  /\ \E key \in Keys : \E f \in Range(ListedFiles(key)) :
       /\ \E i \in 1..(Len(f.content) - 2) :
            IsDigit(f.content[i]) /\ f.content[i + 1] = "." /\ IsAlpha(f.content[i + 2])
       /\ \E r \in Range(RowsUnder(key)) : r[ColFileName] = PyStr(f.name)

(* C2: for every file listed in the report, 'File Alphabetical Count' is   *)
(* the number of maximal runs of letters summed over the lines of the file *)
(* that contain a letter.                                                  *)
C2_CountIsMaximalRuns ==
  ReportBuilt =>
    \A key \in Keys :
      LET rows  == RowsUnder(key)
          files == ListedFiles(key)
      IN SameBag([i \in 1..Len(rows) |->
                    <<rows[i][ColFileName], rows[i][ColFileCount]>>],
                 [i \in 1..Len(files) |->
                    <<PyStr(files[i].name), PyInt(SpecCount(files[i]))>>])

\* The example of the specification is in the report: count 3, "5; 6".
C2_Witness ==
  /\ pc = "done"
  /\ \E i \in Subfolders : \E f \in Range(tree[i].files) : f.content = ExampleContent
  /\ \E r \in Range(final_report_data) :
       /\ r[ColFileCount] = PyInt(3)
       /\ r[ColFollowingDay] = PyStr(<<"5", ";", " ", "6">>)

\* The counts of the records listed under key
RecordCounts(key) ==
  LET recs == DictGet(subfolder_data, key, <<>>) IN
  [i \in 1..Len(recs) |-> recs[i].AlphabeticalUnitsCount]

(* C3: at every point of the scan and in the final report, the total of a  *)
(* subfolder key is the sum of the counts of the file records listed under *)
(* that key, also when directories share a base name and when files fail   *)
(* to read.                                                                *)
C3_TotalIsSumOfFiles ==
  /\ \A i \in 1..Len(subfolder_totals) :
       subfolder_totals[i].v = Sum(RecordCounts(subfolder_totals[i].k))
  /\ \A i \in 1..Len(subfolder_data) :
       DictHas(subfolder_totals, subfolder_data[i].k)
  /\ ReportBuilt =>
       \A h \in 1..Len(HeaderRows) :
         LET rows == RowsUnder(HeaderRows[h][ColSubfolderName].str) IN
         HeaderRows[h][ColSubfolderTotal].int
           = Sum([i \in 1..Len(rows) |-> rows[i][ColFileCount].int])

\* Two directories share a base name, both gave a file to the key, and a
\* file of one of them failed to read.
C3_Witness ==
  /\ pc = "done"
  /\ \E i, j \in Subfolders :
       /\ i # j
       /\ KeyOf(i) = KeyOf(j)
       /\ \E f \in Range(tree[i].files) : Listed(f)
       /\ \E f \in Range(tree[j].files) : Listed(f)
       /\ Len(RowsUnder(KeyOf(i))) = 2
  /\ \E i \in Subfolders : \E f \in Range(tree[i].files) : ~Readable(f)

(* C4: the header rows of the report are the subfolders of total 0 in the  *)
(* order the walk first met them, then the subfolders of non-zero total in *)
(* non-decreasing order of total, equal totals in the order the walk first *)
(* met them.                                                               *)
C4_HeaderOrder ==
  ReportBuilt =>
    \A g, h \in 1..Len(HeaderRows) :
      g < h =>
        LET kg == HeaderRows[g][ColSubfolderName].str
            kh == HeaderRows[h][ColSubfolderName].str
            tg == HeaderRows[g][ColSubfolderTotal].int
            th == HeaderRows[h][ColSubfolderTotal].int
        IN /\ th = 0 => tg = 0
           /\ tg <= th
           /\ tg = th => FirstSeen(kg) < FirstSeen(kh)

\* The walk met the larger total first, and the sort moved it last.
C4_Witness ==
  /\ pc = "done"
  /\ \E g, h \in 1..Len(HeaderRows) :
       /\ g < h
       /\ 0 < HeaderRows[g][ColSubfolderTotal].int
       /\ HeaderRows[g][ColSubfolderTotal].int < HeaderRows[h][ColSubfolderTotal].int
       /\ FirstSeen(HeaderRows[h][ColSubfolderName].str)
            < FirstSeen(HeaderRows[g][ColSubfolderName].str)

\* The listed files of every directory but the root
AllListedFiles ==
  Concat([i \in 1..Len(tree) |->
            IF i \in Subfolders THEN SelectSeq(tree[i].files, Listed) ELSE <<>>])

(* C5: every directory visited under the root has its base name in exactly *)
(* one header row, with total 0 when none of its files qualifies; the root *)
(* has no header row and its files add to no count.                        *)
C5_EveryDirectoryOneHeader ==
  ReportBuilt =>
    /\ \A i \in Subfolders :
         /\ Cardinality({h \in 1..Len(HeaderRows) :
                           HeaderRows[h][ColSubfolderName] = PyStr(KeyOf(i))}) = 1
         /\ ListedFiles(KeyOf(i)) = <<>> =>
              \E h \in 1..Len(HeaderRows) :
                /\ HeaderRows[h][ColSubfolderName] = PyStr(KeyOf(i))
                /\ HeaderRows[h][ColSubfolderTotal] = PyInt(0)
    /\ \A h \in 1..Len(HeaderRows) :
         \E i \in Subfolders : HeaderRows[h][ColSubfolderName] = PyStr(KeyOf(i))
    /\ Sum([h \in 1..Len(HeaderRows) |-> HeaderRows[h][ColSubfolderTotal].int])
         = Sum([i \in 1..Len(AllListedFiles) |-> SpecCount(AllListedFiles[i])])

\* A second run with the last report in the root, a directory without a listed
\* file and a directory with one.
C5_Witness ==
  /\ pc = "done"
  /\ \E f \in Range(tree[1].files) : AlphabeticLines(f) # <<>>
  /\ previous_output # <<>>
  /\ \E i \in Subfolders : ListedFiles(KeyOf(i)) = <<>>
  /\ \E i \in Subfolders : ListedFiles(KeyOf(i)) # <<>>
  /\ Len(HeaderRows) = Cardinality({KeyOf(i) : i \in Subfolders})

(* C6: a file without a line that contains a letter is no file row of the  *)
(* report and adds nothing to a subfolder total: every file row has a      *)
(* count of at least 1.                                                    *)
C6_NoRowWithoutLetters ==
  ReportBuilt =>
    /\ \A i \in 1..Len(final_report_data) :
         ~HeaderStyle(final_report_data[i]) =>
           final_report_data[i][ColFileCount].int >= 1
    /\ \A key \in Keys :
         LET files == ListedFiles(key) IN
         /\ Len(RowsUnder(key)) = Len(files)
         /\ \A h \in 1..Len(HeaderRows) :
              HeaderRows[h][ColSubfolderName] = PyStr(key) =>
                HeaderRows[h][ColSubfolderTotal].int
                  = Sum([i \in 1..Len(files) |-> SpecCount(files[i])])

\* A readable file of two lines with digits and no letter was scanned.
C6_Witness ==
  /\ pc = "done"
  /\ \E i \in Subfolders : \E f \in Range(tree[i].files) :
       /\ Readable(f)
       /\ Len(FileLines(f.content)) = 2
       /\ AlphabeticLines(f) = <<>>
       /\ \E k \in 1..Len(f.content) : IsDigit(f.content[k])
       /\ HeaderRows[1][ColSubfolderName] = PyStr(KeyOf(i))

\* a <= b in lexicographic order: a is a prefix of b, or a has the smaller
\* character where the two first differ
LexLeq(a, b) ==
  \/ /\ Len(a) <= Len(b)
     /\ \A i \in 1..Len(a) : a[i] = b[i]
  \/ \E i \in 1..Len(a) :
       /\ i <= Len(b)
       /\ \A j \in 1..(i - 1) : a[j] = b[j]
       /\ a[i] # b[i]
       /\ Ord(a[i]) < Ord(b[i])

(* C7: within the block of a subfolder the file rows are in ascending      *)
(* lexicographic order of file name, whatever the order the walk met the   *)
(* files in, files of directories that share a base name included.         *)
C7_FilesSortedByName ==
  ReportBuilt =>
    \A key \in Keys :
      LET rows == RowsUnder(key) IN
      \A i, j \in 1..Len(rows) :
        i < j => LexLeq(rows[i][ColFileName].str, rows[j][ColFileName].str)

\* Two directories share a base name; the walk met "a" in the first and "B"
\* in the second, and the report lists "B" before "a".
C7_Witness ==
  /\ pc = "done"
  /\ \E i, j \in Subfolders :
       /\ i < j
       /\ KeyOf(i) = KeyOf(j)
       /\ \E f \in Range(tree[i].files) : Listed(f) /\ f.name = <<"a">>
       /\ \E f \in Range(tree[j].files) : Listed(f) /\ f.name = <<"B">>
       /\ LET rows == RowsUnder(KeyOf(i)) IN
            /\ Len(rows) = 2
            /\ rows[1][ColFileName] = PyStr(<<"B">>)
            /\ rows[2][ColFileName] = PyStr(<<"a">>)

\* The file row of a record
RowOfRecord(rec) ==
  Row(Blank, Blank, PyStr(rec.File), PyInt(rec.AlphabeticalUnitsCount),
      PyStr(rec.FollowingDay))

(* C8: the report is, for each subfolder in order, one header-style row    *)
(* (name and total, the file columns empty) and right after it one row per *)
(* file record of the subfolder (name and total empty, the file columns    *)
(* filled); no file row comes before the first header row.                 *)
C8_HeaderThenFiles ==
  ReportBuilt =>
    /\ \A i \in 1..Len(final_report_data) :
         HeaderStyle(final_report_data[i]) # FileStyle(final_report_data[i])
    /\ final_report_data # <<>> => HeaderStyle(final_report_data[1])
    /\ Len(HeaderRows) = Len(subfolder_totals)
    /\ \A i \in 1..Len(subfolder_totals) :
         \E h \in 1..Len(final_report_data) :
           /\ final_report_data[h]
                = Row(PyStr(subfolder_totals[i].k), PyInt(subfolder_totals[i].v),
                      Blank, Blank, Blank)
           /\ LET recs == DictGet(subfolder_data, subfolder_totals[i].k, <<>>) IN
              SameBag(Block(h + 1), [n \in 1..Len(recs) |-> RowOfRecord(recs[n])])

\* Two subfolders, the first block with one file row, the second with two
C8_Witness ==
  /\ pc = "done"
  /\ Len(HeaderRows) = 2
  /\ Len(final_report_data) = 5
  /\ HeaderStyle(final_report_data[3])

(* C9: a run on a tree that has not changed but for the output file of the *)
(* run before writes the same CSV text as the run before.                  *)
C9_RerunWritesSameCsv ==
  (pc = "done" /\ printed = "Successfully created climate_data_analysis.csv"
     /\ previous_output # <<>>)
    => TextOf(tree[1].files, OutputName) = previous_output

\* A second run has written its report, with file rows, over the first one.
C9_Witness ==
  /\ pc = "done"
  /\ printed = "Successfully created climate_data_analysis.csv"
  /\ previous_output # <<>>
  /\ \E r \in Range(final_report_data) : FileStyle(r)
  /\ Len(HeaderRows) = 2

\* Reading the current file raises, now or at a later line.
WillRaise ==
  /\ pc = "read"
  /\ CurrentFile.fails
  /\ CurrentFile.failAt >= li
  /\ CurrentFile.failAt <= Len(FileLines(CurrentFile.content))

\* The names of the records listed under key
RecordNames(key) ==
  LET recs == DictGet(subfolder_data, key, <<>>) IN
  [i \in 1..Len(recs) |-> recs[i].File]

\* The walk ended with every directory keyed and every listed file recorded.
WalkComplete ==
  /\ di = Len(tree)
  /\ \A i \in Subfolders : DictHas(subfolder_totals, KeyOf(i))
  /\ \A key \in Keys :
       LET files == ListedFiles(key) IN
       SameBag(RecordNames(key), [i \in 1..Len(files) |-> files[i].name])

(* C10: when opening or reading a file fails, also after alphabetic lines  *)
(* of it were read, the file leaves no record and no count: the records    *)
(* and totals stay as they were before the file; the walk goes on with the *)
(* next file, and at its end every other file and directory is processed.  *)
C10_FailedFileLeavesNothing ==
  [][/\ WillRaise =>
          /\ subfolder_data' = subfolder_data
          /\ subfolder_totals' = subfolder_totals
          /\ pc' \in {"read", "files"}
          /\ di' = di
          /\ fi' = fi
     /\ pc = "report" => WalkComplete]_vars

\* A file failed after an alphabetic line, and the file after it is listed.
C10_Witness ==
  /\ pc = "done"
  /\ \E i \in Subfolders : \E m, n \in 1..Len(tree[i].files) :
       /\ m < n
       /\ ~Readable(tree[i].files[m])
       /\ tree[i].files[m].failAt >= 1
       /\ AlphabeticLine(FileLines(tree[i].files[m].content)[1])
       /\ Listed(tree[i].files[n])
       /\ \E r \in Range(RowsUnder(KeyOf(i))) :
            r[ColFileName] = PyStr(tree[i].files[n].name)

====
